---- MODULE Spec2Model ----
(***************************************************************************)
(* A model of the bubbletea command combinators (commands.go), the resize  *)
(* listener (listenForResize), the timer commands Tick and Every, the      *)
(* program's event loop and the example applications it runs.              *)
(*                                                                         *)
(* A Cmd is a Go closure; it is modelled by a record that names the        *)
(* constructor that built the closure and the values it captured.  Calling *)
(* the closure is the operator Call.                                       *)
(***************************************************************************)
EXTENDS Integers, Sequences, FiniteSets, Bags

VARIABLES
    stack,      \* combinators: the commands built so far (a value stack)
    last,       \* combinators: the last operation applied and its result
    lpc,        \* listenForResize: where the goroutine is
    ctxDone,    \* listenForResize: ctx is cancelled
    notified,   \* listenForResize: sig is registered for SIGWINCH
    sig,        \* listenForResize: signals waiting in the channel sig
    doneClosed, \* listenForResize: number of close(done) executed
    winch,      \* listenForResize: SIGWINCH raised so far
    checks,     \* listenForResize: calls of checkResize so far
    program,    \* loop: the command the application's Init returns
    declared,   \* loop: the list of commands the program was built from
    state,      \* loop: Created, Running, Quitting or Stopped
    msgs,       \* loop: the inbound channel, entries [msg, from]
    enqueued,   \* loop: every entry ever put on the channel, in order
    inputs,     \* loop: messages the input reader has produced
    tasks,      \* loop: the commands executing concurrently (a bag)
    runners,    \* loop: the sequences being executed, one record each
    dpc,        \* loop: the dispatcher is idle, updating or viewing
    updates,    \* loop: the entries Update was invoked with, in order
    finished,   \* loop: Update invocations that have ended
    dropped,    \* loop: command results discarded after Running
    cancelled,  \* loop: the cancellation signal is triggered
    errs,       \* loop: a producer has reported an I/O error
    fault,      \* loop: where the first fault was raised, or "none"
    cause,      \* loop: what ended the loop, or "none"
    stopCalls,  \* renderer: calls of stop
    killCalls,  \* renderer: calls of kill
    outcome,    \* loop: what Run returned to its caller, or "none"
    model,      \* application: the value of the model (the countdown)
    altScreen,  \* renderer: the alternate screen is entered
    altEnters,  \* renderer: times the alternate screen has been entered
    windowTitle, \* terminal: the window title, 0 while none has been set
    now,        \* timers: the clock
    timers,     \* timers: the Tick and Every commands, one record each
    tcancel     \* timers: the cancellation signal is triggered

cmdVars == <<stack, last>>
resizeVars == <<lpc, ctxDone, notified, sig, doneClosed, winch, checks>>
appVars == <<program, declared>>
chanVars == <<msgs, enqueued, inputs>>
execVars == <<tasks, runners>>
dispVars == <<state, dpc, updates, finished>>
endVars == <<cancelled, errs, fault, cause, stopCalls, killCalls, outcome>>
scrVars == <<model, altScreen, altEnters, windowTitle>>
loopVars == <<appVars, chanVars, execVars, dispVars, endVars, dropped, scrVars>>
timerVars == <<now, timers, tcancel>>
vars == <<cmdVars, resizeVars, loopVars, timerVars>>

(***************************************************************************)
(* Bounds of the model.                                                    *)
(***************************************************************************)
MaxSize == 4            \* nodes (closures and nil entries) on the stack
MaxWinch == 4           \* SIGWINCH signals raised during a run
MaxInputs == 1          \* messages the input reader produces during a run

Payloads == {1, 2}      \* payloads of the application's own messages
Ids == {1, 2}           \* ids handed to Wrap

(***************************************************************************)
(* Messages (Msg) and commands (Cmd).                                      *)
(***************************************************************************)
NilMsg == [t |-> "nil"]                               \* the nil Msg
Plain(v) == [t |-> "msg", v |-> v]                    \* an application message
BatchMsg(cmds) == [t |-> "BatchMsg", cmds |-> cmds]
sequenceMsg(cmds) == [t |-> "sequenceMsg", cmds |-> cmds]
WrappedMsg(id, msg) == [t |-> "WrappedMsg", Id |-> id, Msg |-> msg]

IsComposite(msg) == msg.t \in {"BatchMsg", "sequenceMsg"}

NilCmd == [k |-> "nil"]                               \* the nil Cmd
Leaf(msg) == [k |-> "leaf", msg |-> msg]              \* func() Msg { return msg }

\* Batch, lines 16-22: the loop that keeps the non-nil commands.
RECURSIVE validCmds(_)
validCmds(cmds) ==
    IF cmds = <<>> THEN <<>>
    ELSE IF Head(cmds) = NilCmd THEN validCmds(Tail(cmds))
    ELSE <<Head(cmds)>> \o validCmds(Tail(cmds))

\* A Batch that forgets to skip the nil commands.
BatchKeepsNil(cmds) ==
    IF Len(cmds) = 0 THEN NilCmd ELSE [k |-> "batch", cmds |-> cmds]

Batch(cmds) ==
    IF Len(validCmds(cmds)) = 0 THEN NilCmd
    ELSE [k |-> "batch", cmds |-> validCmds(cmds)]

\* A Sequence whose closure returns a BatchMsg.
SequenceAsBatch(cmds) == [k |-> "batch", cmds |-> cmds]

Sequence(cmds) == [k |-> "sequence", cmds |-> cmds]

Wrap(cmd, id) ==
    IF cmd = NilCmd THEN cmd ELSE [k |-> "wrap", cmd |-> cmd, id |-> id]

\* A Wrap closure whose loop ends at the first nil command.
RECURSIVE wrappedUntilNil(_, _)
wrappedUntilNil(cmds, id) ==
    IF cmds = <<>> \/ Head(cmds) = NilCmd THEN <<>>
    ELSE <<Wrap(Head(cmds), id)>> \o wrappedUntilNil(Tail(cmds), id)

\* Wrap's closure, lines 85-91: the non-nil commands, each wrapped.
RECURSIVE wrapped(_, _)
wrapped(cmds, id) ==
    IF cmds = <<>> THEN <<>>
    ELSE IF Head(cmds) = NilCmd THEN wrapped(Tail(cmds), id)
    ELSE <<Wrap(Head(cmds), id)>> \o wrapped(Tail(cmds), id)

\* A Wrap closure that tags with the wrong id.
WrapResultWrongId(msg, id) ==
    IF msg.t = "BatchMsg" THEN BatchMsg(wrapped(msg.cmds, id))
    ELSE IF msg.t = "sequenceMsg" THEN sequenceMsg(wrapped(msg.cmds, id))
    ELSE WrappedMsg(id + 1, msg)

\* A Wrap closure that re-emits every composite as a batch.
WrapResultAlwaysBatch(msg, id) ==
    IF IsComposite(msg) THEN BatchMsg(wrapped(msg.cmds, id))
    ELSE WrappedMsg(id, msg)

\* A Wrap closure that wraps the sequence marker itself.
WrapResultWrapsMarker(msg, id) ==
    IF msg.t = "BatchMsg" THEN BatchMsg(wrapped(msg.cmds, id))
    ELSE WrappedMsg(id, msg)

\* A Wrap closure that passes a nil message on unwrapped.
WrapResultPassesNil(msg, id) ==
    IF msg.t = "BatchMsg" THEN BatchMsg(wrapped(msg.cmds, id))
    ELSE IF msg.t = "sequenceMsg" THEN sequenceMsg(wrapped(msg.cmds, id))
    ELSE IF msg.t = "nil" THEN msg
    ELSE WrappedMsg(id, msg)

\* Wrap's closure, lines 65-95, applied to the message msg := cmd().
WrapResult(msg, id) ==
    IF msg.t = "BatchMsg" THEN BatchMsg(wrapped(msg.cmds, id))
    ELSE IF msg.t = "sequenceMsg" THEN sequenceMsg(wrapped(msg.cmds, id))
    ELSE WrappedMsg(id, msg)

setWindowTitleMsg(title) == [t |-> "setWindowTitleMsg", title |-> title]

Sequentially(cmds) == [k |-> "sequentially", cmds |-> cmds]
SetWindowTitle(title) == [k |-> "title", title |-> title]

\* Tick(d, fn) and Every(duration, fn), where fn is the callback that makes
\* the application's message v of the time it is handed.
Tick(d, v) == [k |-> "tick", d |-> d, v |-> v]
Every(duration, v) == [k |-> "every", d |-> duration, v |-> v]
Callback(v) == [k |-> "fn", v |-> v]

RECURSIVE Call(_)

\* A Sequentially that goes on after the first message and executes every
\* command.
RECURSIVE SequentiallyRunsAll(_)
SequentiallyRunsAll(cmds) ==
    IF cmds = <<>> THEN [msg |-> NilMsg, called |-> <<>>]
    ELSE IF Head(cmds) = NilCmd THEN SequentiallyRunsAll(Tail(cmds))
    ELSE [msg |-> IF Call(Head(cmds)) # NilMsg THEN Call(Head(cmds))
                  ELSE SequentiallyRunsAll(Tail(cmds)).msg,
          called |-> <<Head(cmds)>> \o SequentiallyRunsAll(Tail(cmds)).called]

\* Sequentially's closure, lines 222-230: the message it returns and the
\* commands it has called when it returns.
RECURSIVE SequentiallyLoop(_)
SequentiallyLoop(cmds) ==
    IF cmds = <<>> THEN [msg |-> NilMsg, called |-> <<>>]
    ELSE IF Head(cmds) = NilCmd THEN SequentiallyLoop(Tail(cmds))
    ELSE IF Call(Head(cmds)) # NilMsg
    THEN [msg |-> Call(Head(cmds)), called |-> <<Head(cmds)>>]
    ELSE [msg |-> SequentiallyLoop(Tail(cmds)).msg,
          called |-> <<Head(cmds)>> \o SequentiallyLoop(Tail(cmds)).called]

\* cmd(): the message a non-nil command returns when it is called.  The
\* wait of a Tick or an Every is part of the call.
Call(cmd) ==
    CASE cmd.k = "leaf" -> cmd.msg
      [] cmd.k = "batch" -> BatchMsg(cmd.cmds)
      [] cmd.k = "sequence" -> sequenceMsg(cmd.cmds)
      [] cmd.k = "wrap" -> WrapResult(Call(cmd.cmd), cmd.id)
      [] cmd.k = "sequentially" -> SequentiallyLoop(cmd.cmds).msg
      [] cmd.k = "title" -> setWindowTitleMsg(cmd.title)
      [] cmd.k \in {"tick", "every"} -> Plain(cmd.v)

\* A Wrap closure that also calls the commands its result carries.
WrapCallsCarried(cmd, msg) ==
    <<cmd>> \o (IF IsComposite(msg) THEN validCmds(msg.cmds) ELSE <<>>)

\* Wrap's closure, line 63: the one call it makes, msg := cmd().
WrapCalls(cmd, msg) == <<cmd>>

\* The closures of Batch (lines 26-28) and Sequence (lines 38-40) return
\* the list they captured and call nothing.
CompositeCalls(cmds) == <<>>

\* The commands and callbacks a command calls itself when it is called.
Calls(cmd) ==
    CASE cmd.k \in {"leaf", "title", "fn"} -> <<>>
      [] cmd.k \in {"batch", "sequence"} -> CompositeCalls(cmd.cmds)
      [] cmd.k = "wrap" -> WrapCalls(cmd.cmd, Call(cmd.cmd))
      [] cmd.k = "sequentially" -> SequentiallyLoop(cmd.cmds).called
      [] cmd.k \in {"tick", "every"} -> <<Callback(cmd.v)>>

\* Every command and callback executed by one call of a command.
RECURSIVE Ran(_)
RECURSIVE RanAll(_)
Ran(cmd) == RanAll(Calls(cmd))
RanAll(cmds) ==
    IF cmds = <<>> THEN <<>>
    ELSE <<Head(cmds)>> \o Ran(Head(cmds)) \o RanAll(Tail(cmds))

\* The bodies of the constructors (Batch 16-25, Sequence 37, Wrap 53-61,
\* Every 152, Tick 199, Sequentially 220, SetWindowTitle 245) hold no call
\* of an argument: what a constructor executes of the arguments it is given.
Constructing(args) == <<>>

\* The loop's unrolling of a command into the messages it delivers: a
\* composite result is replaced by the results of its non-nil commands, a
\* nil result delivers nothing.
RECURSIVE Unroll(_)
RECURSIVE UnrollAll(_)
Unroll(cmd) ==
    IF cmd = NilCmd THEN <<>>
    ELSE IF IsComposite(Call(cmd)) THEN UnrollAll(Call(cmd).cmds)
    ELSE IF Call(cmd) = NilMsg THEN <<>>
    ELSE <<Call(cmd)>>
UnrollAll(cmds) ==
    IF cmds = <<>> THEN <<>> ELSE Unroll(Head(cmds)) \o UnrollAll(Tail(cmds))

(***************************************************************************)
(* The combinators applied to every command expression of bounded size.    *)
(* The stack holds the values computed so far; a combinator takes its      *)
(* arguments from the top of the stack and pushes its result.              *)
(***************************************************************************)
RECURSIVE Size(_)
RECURSIVE SizeAll(_)
Size(cmd) ==
    CASE cmd.k \in {"nil", "leaf", "title", "tick", "every"} -> 1
      [] cmd.k \in {"batch", "sequence", "sequentially"} ->
             1 + SizeAll(cmd.cmds)
      [] cmd.k = "wrap" -> 1 + Size(cmd.cmd)
SizeAll(cmds) ==
    IF cmds = <<>> THEN 0 ELSE Size(Head(cmds)) + SizeAll(Tail(cmds))

LeafMsgs == {NilMsg} \cup {Plain(v) : v \in Payloads}

Top(n) == SubSeq(stack, Len(stack) - n + 1, Len(stack))
Below(n) == SubSeq(stack, 1, Len(stack) - n)

\* No program is run.
NoLoop ==
    /\ program = NilCmd
    /\ declared = <<>>
    /\ state = "Created"
    /\ msgs = <<>>
    /\ enqueued = <<>>
    /\ inputs = 0
    /\ tasks = EmptyBag
    /\ runners = <<>>
    /\ dpc = "idle"
    /\ updates = <<>>
    /\ finished = 0
    /\ dropped = 0
    /\ cancelled = FALSE
    /\ errs = FALSE
    /\ fault = "none"
    /\ cause = "none"
    /\ stopCalls = 0
    /\ killCalls = 0
    /\ outcome = "none"
    /\ model = 0
    /\ altScreen = FALSE
    /\ altEnters = 0
    /\ windowTitle = 0

\* No timer command is executed.
NoTimer ==
    /\ now = 0
    /\ timers = <<>>
    /\ tcancel = FALSE

\* The combinators alone: no listener runs.
NoResize ==
    /\ lpc = "start"
    /\ ctxDone = FALSE
    /\ notified = FALSE
    /\ sig = 0
    /\ doneClosed = 0
    /\ winch = 0
    /\ checks = 0

InitCmd ==
    /\ stack = <<>>
    /\ last = [op |-> "none"]
    /\ NoResize
    /\ NoLoop
    /\ NoTimer

PushLeaf ==
    \E msg \in LeafMsgs :
        /\ SizeAll(stack) < MaxSize
        /\ stack' = Append(stack, Leaf(msg))
        /\ last' = [op |-> "none"]
        /\ UNCHANGED <<resizeVars, loopVars, timerVars>>

PushNil ==
    /\ SizeAll(stack) < MaxSize
    /\ stack' = Append(stack, NilCmd)
    /\ last' = [op |-> "none"]
    /\ UNCHANGED <<resizeVars, loopVars, timerVars>>

CallBatch ==
    \E n \in 0..Len(stack) :
        /\ SizeAll(Below(n) \o <<Batch(Top(n))>>) <= MaxSize
        /\ stack' = Below(n) \o <<Batch(Top(n))>>
        /\ last' = [op |-> "Batch", args |-> Top(n), result |-> Batch(Top(n))]
        /\ UNCHANGED <<resizeVars, loopVars, timerVars>>

CallSequence ==
    \E n \in 0..Len(stack) :
        /\ SizeAll(Below(n) \o <<Sequence(Top(n))>>) <= MaxSize
        /\ stack' = Below(n) \o <<Sequence(Top(n))>>
        /\ last' = [op |-> "Sequence", args |-> Top(n),
                    result |-> Sequence(Top(n))]
        /\ UNCHANGED <<resizeVars, loopVars, timerVars>>

CallWrap ==
    \E id \in Ids :
        /\ Len(stack) > 0
        /\ SizeAll(Below(1) \o <<Wrap(Top(1)[1], id)>>) <= MaxSize
        /\ stack' = Below(1) \o <<Wrap(Top(1)[1], id)>>
        /\ last' = [op |-> "Wrap", cmd |-> Top(1)[1], id |-> id,
                    result |-> Wrap(Top(1)[1], id)]
        /\ UNCHANGED <<resizeVars, loopVars, timerVars>>

\* The command on top of the stack is called.
Invoke ==
    /\ Len(stack) > 0
    /\ Top(1)[1] # NilCmd
    /\ stack' = stack
    /\ last' = [op |-> "call", cmd |-> Top(1)[1], msg |-> Call(Top(1)[1])]
    /\ UNCHANGED <<resizeVars, loopVars, timerVars>>

\* Wrap(cmd, id)() for the command on top of the stack.
InvokeWrapped ==
    \E id \in Ids :
        /\ Len(stack) > 0
        /\ Top(1)[1] # NilCmd
        /\ stack' = stack
        /\ last' = [op |-> "call", cmd |-> Wrap(Top(1)[1], id),
                    msg |-> Call(Wrap(Top(1)[1], id))]
        /\ UNCHANGED <<resizeVars, loopVars, timerVars>>

\* The command on top of the stack is run to its last message.
RunToEnd ==
    /\ Len(stack) > 0
    /\ stack' = stack
    /\ last' = [op |-> "unroll", cmd |-> Top(1)[1], out |-> Unroll(Top(1)[1])]
    /\ UNCHANGED <<resizeVars, loopVars, timerVars>>

\* Wrap(cmd, id) of the command on top of the stack, run to its last message.
RunWrappedToEnd ==
    \E id \in Ids :
        /\ Len(stack) > 0
        /\ stack' = stack
        /\ last' = [op |-> "unroll", cmd |-> Wrap(Top(1)[1], id),
                    out |-> Unroll(Wrap(Top(1)[1], id))]
        /\ UNCHANGED <<resizeVars, loopVars, timerVars>>

NextCmd ==
    \/ PushLeaf
    \/ PushNil
    \/ CallBatch
    \/ CallSequence
    \/ CallWrap
    \/ Invoke
    \/ InvokeWrapped
    \/ RunToEnd
    \/ RunWrappedToEnd

SpecCmd == InitCmd /\ [][NextCmd]_vars

(***************************************************************************)
(* The constructors and the calls their commands make: every expression    *)
(* of bounded size is built, then called with a record of what it executes.*)
(***************************************************************************)
MaxExec == 3            \* nodes of the expressions built and called

Titles == {1}           \* window titles
ListConstructors == {"Batch", "Sequence", "Sequentially"}

Construct(ctor, cmds) ==
    CASE ctor = "Batch" -> Batch(cmds)
      [] ctor = "Sequence" -> Sequence(cmds)
      [] ctor = "Sequentially" -> Sequentially(cmds)

Built(ctor, args, result) ==
    [op |-> "build", ctor |-> ctor, args |-> args, result |-> result,
     calls |-> Constructing(args)]

InitExec ==
    /\ stack = <<>>
    /\ last = [op |-> "none"]
    /\ NoResize
    /\ NoLoop
    /\ NoTimer

\* A command written by the application, or nil.
ExecPush ==
    \E cmd \in {NilCmd} \cup {Leaf(msg) : msg \in LeafMsgs} :
        /\ SizeAll(stack) < MaxExec
        /\ stack' = Append(stack, cmd)
        /\ last' = [op |-> "none"]
        /\ UNCHANGED <<resizeVars, loopVars, timerVars>>

\* Batch, Sequence or Sequentially is called with the top of the stack.
BuildList ==
    \E ctor \in ListConstructors, n \in 0..Len(stack) :
        /\ SizeAll(Below(n) \o <<Construct(ctor, Top(n))>>) <= MaxExec
        /\ stack' = Below(n) \o <<Construct(ctor, Top(n))>>
        /\ last' = Built(ctor, Top(n), Construct(ctor, Top(n)))
        /\ UNCHANGED <<resizeVars, loopVars, timerVars>>

\* Wrap is called with the command on top of the stack.
BuildWrap ==
    \E id \in Ids :
        /\ Len(stack) > 0
        /\ SizeAll(Below(1) \o <<Wrap(Top(1)[1], id)>>) <= MaxExec
        /\ stack' = Below(1) \o <<Wrap(Top(1)[1], id)>>
        /\ last' = Built("Wrap", Top(1), Wrap(Top(1)[1], id))
        /\ UNCHANGED <<resizeVars, loopVars, timerVars>>

\* Tick or Every is called with a callback.
BuildTimer ==
    \E v \in Payloads : \E cmd \in {Tick(1, v), Every(1, v)} :
        /\ SizeAll(stack) < MaxExec
        /\ stack' = Append(stack, cmd)
        /\ last' = Built(IF cmd.k = "tick" THEN "Tick" ELSE "Every",
                         <<Callback(v)>>, cmd)
        /\ UNCHANGED <<resizeVars, loopVars, timerVars>>

\* SetWindowTitle is called.
BuildTitle ==
    \E t \in Titles :
        /\ SizeAll(stack) < MaxExec
        /\ stack' = Append(stack, SetWindowTitle(t))
        /\ last' = Built("SetWindowTitle", <<>>, SetWindowTitle(t))
        /\ UNCHANGED <<resizeVars, loopVars, timerVars>>

\* The command on top of the stack is called.
Run ==
    /\ Len(stack) > 0
    /\ Top(1)[1] # NilCmd
    /\ stack' = stack
    /\ last' = [op |-> "run", cmd |-> Top(1)[1], msg |-> Call(Top(1)[1]),
                calls |-> Calls(Top(1)[1]), ran |-> Ran(Top(1)[1])]
    /\ UNCHANGED <<resizeVars, loopVars, timerVars>>

NextExec ==
    \/ ExecPush
    \/ BuildList
    \/ BuildWrap
    \/ BuildTimer
    \/ BuildTitle
    \/ Run

SpecExec == InitExec /\ [][NextExec]_vars

(***************************************************************************)
(* listenForResize: the goroutine that turns SIGWINCH into resize checks.  *)
(***************************************************************************)
SigCap == 1             \* make(chan os.Signal, 1)

\* The listener alone: no combinator is applied.
NoCmd ==
    /\ stack = <<>>
    /\ last = [op |-> "none"]

InitResize ==
    /\ lpc = "start"
    /\ ctxDone = FALSE
    /\ notified = FALSE
    /\ sig = 0
    /\ doneClosed = 0
    /\ winch = 0
    /\ checks = 0
    /\ NoCmd
    /\ NoLoop
    /\ NoTimer

\* sig := make(chan os.Signal, 1); signal.Notify(sig, syscall.SIGWINCH)
Notify ==
    /\ lpc = "start"
    /\ lpc' = "select"
    /\ notified' = TRUE
    /\ UNCHANGED <<ctxDone, sig, doneClosed, winch, checks,
                   cmdVars, loopVars, timerVars>>

\* The terminal is resized: the runtime sends on sig without blocking, so a
\* signal that finds the channel full is dropped.
Winch ==
    /\ winch < MaxWinch
    /\ winch' = winch + 1
    /\ sig' = IF notified /\ sig < SigCap THEN sig + 1 ELSE sig
    /\ UNCHANGED <<lpc, ctxDone, notified, doneClosed, checks,
                   cmdVars, loopVars, timerVars>>

\* The context is cancelled (quit, or the caller's context).
Cancel ==
    /\ ~ctxDone
    /\ ctxDone' = TRUE
    /\ UNCHANGED <<lpc, notified, sig, doneClosed, winch, checks,
                   cmdVars, loopVars, timerVars>>

\* A listener that also returns when no signal is waiting.
SelectDoneUncancelled ==
    /\ lpc = "select"
    /\ ctxDone \/ sig = 0
    /\ lpc' = "stop"
    /\ UNCHANGED <<ctxDone, notified, sig, doneClosed, winch, checks,
                   cmdVars, loopVars, timerVars>>

\* case <-ctx.Done(): return
SelectDone ==
    /\ lpc = "select"
    /\ ctxDone
    /\ lpc' = "stop"
    /\ UNCHANGED <<ctxDone, notified, sig, doneClosed, winch, checks,
                   cmdVars, loopVars, timerVars>>

\* A receive that leaves the signal in the channel.
SelectSigKeepsSignal ==
    /\ lpc = "select"
    /\ sig > 0
    /\ lpc' = "checkResize"
    /\ checks' = checks + 1
    /\ UNCHANGED <<ctxDone, notified, sig, doneClosed, winch,
                   cmdVars, loopVars, timerVars>>

\* case <-sig: then checkResize is called
SelectSig ==
    /\ lpc = "select"
    /\ sig > 0
    /\ sig' = sig - 1
    /\ lpc' = "checkResize"
    /\ checks' = checks + 1
    /\ UNCHANGED <<ctxDone, notified, doneClosed, winch,
                   cmdVars, loopVars, timerVars>>

\* checkResize returns (it sends the size, or gives up on ctx.Done())
CheckResizeReturns ==
    /\ lpc = "checkResize"
    /\ lpc' = "select"
    /\ UNCHANGED <<ctxDone, notified, sig, doneClosed, winch, checks,
                   cmdVars, loopVars, timerVars>>

\* deferred: signal.Stop(sig)
DeferredStop ==
    /\ lpc = "stop"
    /\ notified' = FALSE
    /\ lpc' = "close"
    /\ UNCHANGED <<ctxDone, sig, doneClosed, winch, checks,
                   cmdVars, loopVars, timerVars>>

\* deferred: close(done); the function has returned
DeferredClose ==
    /\ lpc = "close"
    /\ doneClosed' = doneClosed + 1
    /\ lpc' = "returned"
    /\ UNCHANGED <<ctxDone, notified, sig, winch, checks,
                   cmdVars, loopVars, timerVars>>

NextResize ==
    \/ Notify
    \/ Winch
    \/ Cancel
    \/ SelectDone
    \/ SelectSig
    \/ CheckResizeReturns
    \/ DeferredStop
    \/ DeferredClose

SpecResize == InitResize /\ [][NextResize]_vars

\* The goroutine is scheduled, checkResize returns, and select, which picks
\* at random among its ready cases, does not pass over a ready ctx.Done()
\* for ever.
FairSpecResize ==
    /\ SpecResize
    /\ WF_vars(Notify)
    /\ WF_vars(CheckResizeReturns)
    /\ WF_vars(DeferredStop)
    /\ WF_vars(DeferredClose)
    /\ SF_vars(SelectDone)

(***************************************************************************)
(* Tick and Every: the commands that block on a timer.  The clock counts   *)
(* whole units; the runtime delivers a timer's expiry at its deadline.     *)
(***************************************************************************)
MaxClock == 6           \* the last reading of the clock
MaxDuration == 3        \* the longest duration handed to Tick and Every

Durations == 1..MaxDuration
TimerIds == {1, 2}       \* the timer commands executed during a run

\* fn(t): the message the callback makes of the time it is handed.
fn(t) == [t |-> "tickMsg", at |-> t]

\* n.Truncate(duration): n rounded down to a multiple of the duration.
Truncate(n, duration) == n - (n % duration)

\* An Every that waits the whole duration, as Tick does.
EveryDelayAsTick(n, duration) == duration

\* Every, line 155: d := n.Truncate(duration).Add(duration).Sub(n)
EveryDelay(n, duration) == Truncate(n, duration) + duration - n

\* Tick, line 201: the timer runs for the duration it is given.
TickDelay(n, duration) == duration

InitTimer ==
    /\ now = 0
    /\ timers = <<>>
    /\ tcancel = FALSE
    /\ NoCmd
    /\ NoResize
    /\ NoLoop

\* time.NewTimer(d), then the receive <-t.C on which the command blocks.
Blocked(kind, duration, d) ==
    [kind |-> kind, duration |-> duration, n |-> now, d |-> d,
     pc |-> "blocked", cut |-> FALSE, fired |-> 0, msg |-> NilMsg]

\* The command returned by Tick(duration, fn) is called.
InvokeTick ==
    \E duration \in Durations :
        /\ Len(timers) < Cardinality(TimerIds)
        /\ timers' = Append(timers,
               Blocked("Tick", duration, TickDelay(now, duration)))
        /\ UNCHANGED <<now, tcancel, cmdVars, resizeVars, loopVars>>

\* The command returned by Every(duration, fn) is called.
InvokeEvery ==
    \E duration \in Durations :
        /\ Len(timers) < Cardinality(TimerIds)
        /\ timers' = Append(timers,
               Blocked("Every", duration, EveryDelay(now, duration)))
        /\ UNCHANGED <<now, tcancel, cmdVars, resizeVars, loopVars>>

\* A timer whose deadline is the present reading has not yet expired.
Due(i) == timers[i].pc = "blocked" /\ timers[i].n + timers[i].d <= now

\* The clock advances, once every timer that is due has expired.
ClockAdvances ==
    /\ now < MaxClock
    /\ \A i \in 1..Len(timers) : ~Due(i)
    /\ now' = now + 1
    /\ UNCHANGED <<timers, tcancel, cmdVars, resizeVars, loopVars>>

\* The runtime sends the time on t.C.
TimerExpires ==
    \E i \in 1..Len(timers) :
        /\ Due(i)
        /\ timers' = [timers EXCEPT ![i].pc = "expired", ![i].fired = now]
        /\ UNCHANGED <<now, tcancel, cmdVars, resizeVars, loopVars>>

\* return fn(<-t.C)
TimerReturns ==
    \E i \in 1..Len(timers) :
        /\ timers[i].pc = "expired"
        /\ timers' = [timers EXCEPT ![i].pc = "returned",
                                    ![i].msg = fn(timers[i].fired)]
        /\ UNCHANGED <<now, tcancel, cmdVars, resizeVars, loopVars>>

\* The loop's cancellation signal is triggered.  Neither command is handed
\* the signal: the commands blocked at this moment are only marked.
CancelTimers ==
    /\ ~tcancel
    /\ tcancel' = TRUE
    /\ timers' = [i \in 1..Len(timers) |->
                      [timers[i] EXCEPT !.cut = (timers[i].pc = "blocked")]]
    /\ UNCHANGED <<now, cmdVars, resizeVars, loopVars>>

NextTimer ==
    \/ InvokeTick
    \/ InvokeEvery
    \/ ClockAdvances
    \/ TimerExpires
    \/ TimerReturns
    \/ CancelTimers

SpecTimer == InitTimer /\ [][NextTimer]_vars

(***************************************************************************)
(* The program's event loop: one dispatcher, one execution context per     *)
(* command, one runner per sequence, and the renderer's teardown.          *)
(***************************************************************************)
QuitMsg == [t |-> "QuitMsg"]
Quit == Leaf(QuitMsg)                   \* tea.Quit
Faulty == [k |-> "panics"]              \* a command whose body panics

RECURSIVE Panics(_)
Panics(cmd) == cmd.k = "panics" \/ (cmd.k = "wrap" /\ Panics(cmd.cmd))

\* The messages the loop handles itself.
IsControl(msg) ==
    msg.t \in {"QuitMsg", "BatchMsg", "sequenceMsg", "setWindowTitleMsg",
               "enterAltScreenMsg"}

\* The message below the WrappedMsg layers.
RECURSIVE Inner(_)
Inner(msg) == IF msg.t = "WrappedMsg" THEN Inner(msg.Msg) ELSE msg

QuitKey == 3                            \* the key "q"
UpdatePanics(msg) == Inner(msg) = Plain(4)
ViewPanics(msg) == Inner(msg) = Plain(5)

\* The application's Update: the command it returns for a message.  A
\* parent hands a WrappedMsg to its component and wraps what it returns.
RECURSIVE AppUpdate(_)
AppUpdate(msg) ==
    IF msg.t = "WrappedMsg" THEN Wrap(AppUpdate(msg.Msg), msg.Id)
    ELSE IF msg = Plain(QuitKey) THEN Quit
    ELSE NilCmd

\* The programs run: Init returns a command built from the list declared.
A == Leaf(Plain(1))
B == Leaf(Plain(2))
Other == Leaf(Plain(6))

DeclaredLists ==
    { <<A, NilCmd, B>>,
      <<Leaf(NilMsg), B>>,
      <<Quit, B>>,
      <<Faulty, B>>,
      <<Leaf(Plain(4)), B>>,
      <<Leaf(Plain(5)), B>>,
      <<NilCmd>>,
      <<>> }

\* The list is run as a sequence or as a batch, bare or wrapped; the first
\* list also beside a concurrent command.
Programs(list) ==
    { Sequence(list), Wrap(Sequence(list), 1), Batch(list),
      Wrap(Batch(list), 2) }
    \cup (IF list = <<A, NilCmd, B>>
          THEN {Batch(<<Sequence(list), Other>>)} ELSE {})

\* The countdown (fullscreen example): a model that starts at 5, a tick
\* every second, and the alternate screen.
CountdownFrom == 5
tickMsg == Plain(8)
tick == Tick(1, 8)
EnterAltScreen == Leaf([t |-> "enterAltScreenMsg"])
CountdownInit == Batch(<<tick, EnterAltScreen>>)

\* A countdown that stops one tick late.
CountdownUpdateLate(m, msg) ==
    IF msg = Plain(QuitKey) THEN [model |-> m, cmd |-> Quit]
    ELSE IF msg = tickMsg
    THEN [model |-> m - 1, cmd |-> IF m - 1 < 0 THEN Quit ELSE tick]
    ELSE [model |-> m, cmd |-> NilCmd]

\* The countdown's Update: the model and the command it returns.
CountdownUpdate(m, msg) ==
    IF msg = Plain(QuitKey) THEN [model |-> m, cmd |-> Quit]
    ELSE IF msg = tickMsg
    THEN [model |-> m - 1, cmd |-> IF m - 1 <= 0 THEN Quit ELSE tick]
    ELSE [model |-> m, cmd |-> NilCmd]

\* Two components, wrapped with the ids 1 and 2, that each issue a Tick.
TwoComponents == Batch(<<Wrap(Tick(1, 1), 1), Wrap(Tick(1, 2), 2)>>)

\* SetWindowTitle issued directly, in a Batch, in a Sequence, through Wrap.
TitlePrograms ==
    { SetWindowTitle(1), Batch(<<SetWindowTitle(1), A>>),
      Sequence(<<SetWindowTitle(1), A>>), Wrap(SetWindowTitle(1), 1) }

AppPrograms == {CountdownInit, TwoComponents} \cup TitlePrograms

\* The option WithAltScreen; the countdown is started with it.
WithAltScreen(p) == p = CountdownInit

\* The model a program is created with.
InitialModel(p) == IF p = CountdownInit THEN CountdownFrom ELSE 0

\* Update of the application that is run.
Update(m, msg) ==
    IF program = CountdownInit THEN CountdownUpdate(m, msg)
    ELSE [model |-> m, cmd |-> AppUpdate(msg)]

RECURSIVE Spawned(_, _)
Spawned(bag, cmds) ==
    IF cmds = <<>> THEN bag
    ELSE IF Head(cmds) = NilCmd THEN Spawned(bag, Tail(cmds))
    ELSE Spawned(bag (+) SetToBag({Head(cmds)}), Tail(cmds))

Entry(msg, from) == [msg |-> msg, from |-> from]

\* A runner whose message the dispatcher has handled goes on.
Acked(rs, from) ==
    IF from = 0 THEN rs ELSE [rs EXCEPT ![from].phase = "ready"]

\* Send: a result enters the channel while the loop is Running, and is
\* discarded afterwards; a nil result is no message.
Send(msg, from) ==
    IF msg = NilMsg
    THEN UNCHANGED <<msgs, enqueued, dropped>>
    ELSE IF state = "Running"
    THEN /\ msgs' = Append(msgs, Entry(msg, from))
         /\ enqueued' = Append(enqueued, Entry(msg, from))
         /\ dropped' = dropped
    ELSE /\ dropped' = dropped + 1
         /\ UNCHANGED <<msgs, enqueued>>

Raised(where) == IF fault = "none" THEN where ELSE fault

NextEntry == Head(msgs)

Rest == Tail(msgs)

InitLoop ==
    /\ declared \in DeclaredLists
    /\ program \in Programs(declared)
    /\ state = "Created"
    /\ msgs = <<>>
    /\ enqueued = <<>>
    /\ inputs = 0
    /\ tasks = EmptyBag
    /\ runners = <<>>
    /\ dpc = "idle"
    /\ updates = <<>>
    /\ finished = 0
    /\ dropped = 0
    /\ cancelled = FALSE
    /\ errs = FALSE
    /\ fault = "none"
    /\ cause = "none"
    /\ stopCalls = 0
    /\ killCalls = 0
    /\ outcome = "none"
    /\ model = 0
    /\ altScreen = FALSE
    /\ altEnters = 0
    /\ windowTitle = 0
    /\ NoCmd
    /\ NoResize
    /\ NoTimer

\* Run: the renderer is started and the command of Init is executed.
Start ==
    /\ state = "Created"
    /\ state' = "Running"
    /\ tasks' = Spawned(tasks, <<program>>)
    /\ altScreen' = WithAltScreen(program)
    /\ altEnters' = IF WithAltScreen(program) THEN altEnters + 1 ELSE altEnters
    /\ UNCHANGED <<appVars, chanVars, runners, dpc, updates, finished,
                   endVars, dropped, model, windowTitle,
                   cmdVars, resizeVars, timerVars>>

\* A command on its own execution context returns its message.
TaskFinish ==
    \E cmd \in BagToSet(tasks) :
        /\ state \in {"Running", "Quitting"}
        /\ ~Panics(cmd)
        /\ tasks' = tasks (-) SetToBag({cmd})
        /\ Send(Call(cmd), 0)
        /\ UNCHANGED <<appVars, inputs, runners, dispVars, endVars,
                       cmdVars, resizeVars, timerVars, scrVars>>

\* A command on its own execution context faults.
TaskFault ==
    \E cmd \in BagToSet(tasks) :
        /\ state \in {"Running", "Quitting"}
        /\ Panics(cmd)
        /\ tasks' = tasks (-) SetToBag({cmd})
        /\ fault' = Raised("cmd")
        /\ UNCHANGED <<appVars, chanVars, runners, dispVars, dropped,
                       cancelled, errs, cause, stopCalls, killCalls, outcome,
                       cmdVars, resizeVars, timerVars, scrVars>>

\* The next non-nil command of a sequence and the commands after it.
RECURSIVE SkipNil(_)
SkipNil(cmds) ==
    IF cmds # <<>> /\ Head(cmds) = NilCmd THEN SkipNil(Tail(cmds)) ELSE cmds

RunnerMayStart(r) == runners[r].phase = "ready"

\* A sequence starts its next command.
RunnerNext ==
    \E r \in 1..Len(runners) :
        /\ state = "Running"
        /\ RunnerMayStart(r)
        /\ SkipNil(runners[r].cmds) # <<>>
        /\ runners' = [runners EXCEPT
               ![r].phase = "running",
               ![r].cur = Head(SkipNil(runners[r].cmds)),
               ![r].cmds = Tail(SkipNil(runners[r].cmds))]
        /\ UNCHANGED <<appVars, chanVars, tasks, dispVars, endVars, dropped,
                       cmdVars, resizeVars, timerVars, scrVars>>

\* The command a sequence is executing returns its message.
RunnerFinish ==
    \E r \in 1..Len(runners) :
        /\ state \in {"Running", "Quitting"}
        /\ runners[r].phase = "running"
        /\ ~Panics(runners[r].cur)
        /\ runners' = [runners EXCEPT
               ![r].phase = IF state = "Running" /\ Call(runners[r].cur) # NilMsg
                            THEN "awaiting" ELSE "ready",
               ![r].ran = runners[r].ran + 1]
        /\ Send(Call(runners[r].cur), r)
        /\ UNCHANGED <<appVars, inputs, tasks, dispVars, endVars,
                       cmdVars, resizeVars, timerVars, scrVars>>

\* The command a sequence is executing faults.
RunnerFault ==
    \E r \in 1..Len(runners) :
        /\ state \in {"Running", "Quitting"}
        /\ runners[r].phase = "running"
        /\ Panics(runners[r].cur)
        /\ runners' = [runners EXCEPT ![r].phase = "faulted"]
        /\ fault' = Raised("cmd")
        /\ UNCHANGED <<appVars, chanVars, tasks, dispVars, dropped,
                       cancelled, errs, cause, stopCalls, killCalls, outcome,
                       cmdVars, resizeVars, timerVars, scrVars>>

\* The input reader produces a key message.
Input ==
    \E v \in {QuitKey, 7} :
        /\ state = "Running"
        /\ inputs < MaxInputs
        /\ inputs' = inputs + 1
        /\ msgs' = Append(msgs, Entry(Plain(v), 0))
        /\ enqueued' = Append(enqueued, Entry(Plain(v), 0))
        /\ UNCHANGED <<appVars, execVars, dispVars, endVars, dropped,
                       cmdVars, resizeVars, timerVars, scrVars>>

\* The input reader fails.
InputError ==
    /\ state = "Running"
    /\ ~errs
    /\ errs' = TRUE
    /\ UNCHANGED <<appVars, chanVars, execVars, dispVars, dropped,
                   cancelled, fault, cause, stopCalls, killCalls, outcome,
                   cmdVars, resizeVars, timerVars, scrVars>>

\* The caller's context is cancelled.
ExternalCancel ==
    /\ state = "Running"
    /\ ~cancelled
    /\ cancelled' = TRUE
    /\ UNCHANGED <<appVars, chanVars, execVars, dispVars, dropped,
                   errs, fault, cause, stopCalls, killCalls, outcome,
                   cmdVars, resizeVars, timerVars, scrVars>>

\* A dispatcher that takes a message while Update is still active.
DispatcherNeverBusy == state = "Running" /\ msgs # <<>>

\* A dispatcher that goes on after the loop has left Running.
DispatcherNeverStops == dpc = "idle" /\ msgs # <<>>

\* The dispatcher takes the next message only when it is idle.
DispatcherReady == state = "Running" /\ dpc = "idle" /\ msgs # <<>>

\* The quit control message: the loop leaves Running.
ReceiveQuit ==
    /\ DispatcherReady
    /\ NextEntry.msg.t = "QuitMsg"
    /\ msgs' = Rest
    /\ state' = "Quitting"
    /\ cause' = "quit"
    /\ cancelled' = TRUE
    /\ UNCHANGED <<appVars, enqueued, inputs, execVars, dpc, updates,
                   finished, dropped, errs, fault, stopCalls, killCalls,
                   outcome, cmdVars, resizeVars, timerVars, scrVars>>

\* A BatchMsg is unrolled: each non-nil command gets its own context.
ReceiveBatch ==
    /\ DispatcherReady
    /\ NextEntry.msg.t = "BatchMsg"
    /\ msgs' = Rest
    /\ tasks' = Spawned(tasks, NextEntry.msg.cmds)
    /\ runners' = Acked(runners, NextEntry.from)
    /\ UNCHANGED <<appVars, enqueued, inputs, dispVars, endVars, dropped,
                   cmdVars, resizeVars, timerVars, scrVars>>

\* A sequenceMsg is unrolled: a runner executes its commands in order.
ReceiveSequence ==
    /\ DispatcherReady
    /\ NextEntry.msg.t = "sequenceMsg"
    /\ msgs' = Rest
    /\ runners' = Append(Acked(runners, NextEntry.from),
                         [cmds |-> NextEntry.msg.cmds, phase |-> "ready",
                          cur |-> NilCmd, ran |-> 0])
    /\ UNCHANGED <<appVars, enqueued, inputs, tasks, dispVars, endVars,
                   dropped, cmdVars, resizeVars, timerVars, scrVars>>

\* The window-title control message: the loop sets the title.
ReceiveTitle ==
    /\ DispatcherReady
    /\ NextEntry.msg.t = "setWindowTitleMsg"
    /\ msgs' = Rest
    /\ windowTitle' = NextEntry.msg.title
    /\ runners' = Acked(runners, NextEntry.from)
    /\ UNCHANGED <<appVars, enqueued, inputs, tasks, dispVars, endVars,
                   dropped, model, altScreen, altEnters,
                   cmdVars, resizeVars, timerVars>>

\* The enter-alt-screen control message: the renderer enters the alternate
\* screen unless it is entered already.
ReceiveAltScreen ==
    /\ DispatcherReady
    /\ NextEntry.msg.t = "enterAltScreenMsg"
    /\ msgs' = Rest
    /\ altScreen' = TRUE
    /\ altEnters' = IF altScreen THEN altEnters ELSE altEnters + 1
    /\ runners' = Acked(runners, NextEntry.from)
    /\ UNCHANGED <<appVars, enqueued, inputs, tasks, dispVars, endVars,
                   dropped, model, windowTitle,
                   cmdVars, resizeVars, timerVars>>

\* Any other message: Update is invoked with it.
ReceiveMsg ==
    /\ DispatcherReady
    /\ ~IsControl(NextEntry.msg)
    /\ msgs' = Rest
    /\ updates' = Append(updates, NextEntry)
    /\ dpc' = "updating"
    /\ UNCHANGED <<appVars, enqueued, inputs, execVars, state, finished,
                   endVars, dropped, cmdVars, resizeVars, timerVars, scrVars>>

\* Update returns: its command is executed, the sender is released.
UpdateReturns ==
    /\ dpc = "updating"
    /\ ~UpdatePanics(updates[Len(updates)].msg)
    /\ dpc' = "viewing"
    /\ finished' = finished + 1
    /\ model' = Update(model, updates[Len(updates)].msg).model
    /\ tasks' = Spawned(tasks, <<Update(model, updates[Len(updates)].msg).cmd>>)
    /\ runners' = Acked(runners, updates[Len(updates)].from)
    /\ UNCHANGED <<appVars, chanVars, state, updates, endVars, dropped,
                   altScreen, altEnters, windowTitle,
                   cmdVars, resizeVars, timerVars>>

\* Update faults: the loop ends.
UpdateFaults ==
    /\ dpc = "updating"
    /\ UpdatePanics(updates[Len(updates)].msg)
    /\ dpc' = "idle"
    /\ finished' = finished + 1
    /\ fault' = Raised("Update")
    /\ state' = "Quitting"
    /\ cause' = "fault"
    /\ cancelled' = TRUE
    /\ UNCHANGED <<appVars, chanVars, execVars, updates, dropped, errs,
                   stopCalls, killCalls, outcome,
                   cmdVars, resizeVars, timerVars, scrVars>>

\* View returns and its output is written to the renderer.
ViewReturns ==
    /\ dpc = "viewing"
    /\ ~ViewPanics(updates[Len(updates)].msg)
    /\ dpc' = "idle"
    /\ UNCHANGED <<appVars, chanVars, execVars, state, updates, finished,
                   endVars, dropped, cmdVars, resizeVars, timerVars, scrVars>>

\* View faults: the loop ends.
ViewFaults ==
    /\ dpc = "viewing"
    /\ ViewPanics(updates[Len(updates)].msg)
    /\ dpc' = "idle"
    /\ fault' = Raised("View")
    /\ state' = "Quitting"
    /\ cause' = "fault"
    /\ cancelled' = TRUE
    /\ UNCHANGED <<appVars, chanVars, execVars, updates, finished, dropped,
                   errs, stopCalls, killCalls, outcome,
                   cmdVars, resizeVars, timerVars, scrVars>>

\* The idle loop finds a command's fault.
LoopSeesFault ==
    /\ state = "Running"
    /\ dpc = "idle"
    /\ fault # "none"
    /\ state' = "Quitting"
    /\ cause' = "fault"
    /\ cancelled' = TRUE
    /\ UNCHANGED <<appVars, chanVars, execVars, dpc, updates, finished,
                   dropped, errs, fault, stopCalls, killCalls, outcome,
                   cmdVars, resizeVars, timerVars, scrVars>>

\* The idle loop finds the context cancelled.
LoopSeesCancel ==
    /\ state = "Running"
    /\ dpc = "idle"
    /\ cancelled
    /\ state' = "Quitting"
    /\ cause' = "cancel"
    /\ UNCHANGED <<appVars, chanVars, execVars, dpc, updates, finished,
                   dropped, cancelled, errs, fault, stopCalls, killCalls,
                   outcome, cmdVars, resizeVars, timerVars, scrVars>>

\* The idle loop finds a producer's error.
LoopSeesError ==
    /\ state = "Running"
    /\ dpc = "idle"
    /\ errs
    /\ state' = "Quitting"
    /\ cause' = "ioerr"
    /\ cancelled' = TRUE
    /\ UNCHANGED <<appVars, chanVars, execVars, dpc, updates, finished,
                   dropped, errs, fault, stopCalls, killCalls, outcome,
                   cmdVars, resizeVars, timerVars, scrVars>>

\* A loop that returns without waiting for the teardown.
MayReturnWithoutTeardown == state = "Quitting"

MayTeardown == state = "Quitting" /\ stopCalls + killCalls = 0

MayReturn == state = "Quitting" /\ stopCalls + killCalls = 1

\* Teardown: stop after a quit, kill on the abnormal paths.
Teardown ==
    /\ MayTeardown
    /\ stopCalls' = IF cause = "quit" THEN stopCalls + 1 ELSE stopCalls
    /\ killCalls' = IF cause = "quit" THEN killCalls ELSE killCalls + 1
    /\ altScreen' = FALSE
    /\ UNCHANGED <<appVars, chanVars, execVars, dispVars, dropped,
                   cancelled, errs, fault, cause, outcome,
                   model, altEnters, windowTitle,
                   cmdVars, resizeVars, timerVars>>

\* What Run returns: a fault that was raised, else what ended the loop.
Outcome ==
    IF fault # "none" THEN "fault"
    ELSE IF cause = "ioerr" THEN "ioerr"
    ELSE IF cause = "cancel" THEN "killed"
    ELSE "nil"

\* Run returns to its caller.
Return ==
    /\ MayReturn
    /\ state' = "Stopped"
    /\ outcome' = Outcome
    /\ UNCHANGED <<appVars, chanVars, execVars, dpc, updates, finished,
                   dropped, cancelled, errs, fault, cause, stopCalls,
                   killCalls, cmdVars, resizeVars, timerVars, scrVars>>

NextLoop ==
    \/ Start
    \/ TaskFinish
    \/ TaskFault
    \/ RunnerNext
    \/ RunnerFinish
    \/ RunnerFault
    \/ Input
    \/ InputError
    \/ ExternalCancel
    \/ ReceiveQuit
    \/ ReceiveBatch
    \/ ReceiveSequence
    \/ ReceiveMsg
    \/ UpdateReturns
    \/ UpdateFaults
    \/ ViewReturns
    \/ ViewFaults
    \/ LoopSeesFault
    \/ LoopSeesCancel
    \/ LoopSeesError
    \/ Teardown
    \/ Return

SpecLoop == InitLoop /\ [][NextLoop]_vars

(***************************************************************************)
(* The example applications run by the loop, with keys from the input      *)
(* reader and with no fault, I/O error or cancellation from outside.       *)
(***************************************************************************)
InitApps ==
    /\ program \in AppPrograms
    /\ declared = <<>>
    /\ state = "Created"
    /\ msgs = <<>>
    /\ enqueued = <<>>
    /\ inputs = 0
    /\ tasks = EmptyBag
    /\ runners = <<>>
    /\ dpc = "idle"
    /\ updates = <<>>
    /\ finished = 0
    /\ dropped = 0
    /\ cancelled = FALSE
    /\ errs = FALSE
    /\ fault = "none"
    /\ cause = "none"
    /\ stopCalls = 0
    /\ killCalls = 0
    /\ outcome = "none"
    /\ model = InitialModel(program)
    /\ altScreen = FALSE
    /\ altEnters = 0
    /\ windowTitle = 0
    /\ NoCmd
    /\ NoResize
    /\ NoTimer

\* The steps of the commands, the dispatcher and the teardown.
AppsStep ==
    \/ Start
    \/ TaskFinish
    \/ RunnerNext
    \/ RunnerFinish
    \/ ReceiveQuit
    \/ ReceiveBatch
    \/ ReceiveSequence
    \/ ReceiveTitle
    \/ ReceiveAltScreen
    \/ ReceiveMsg
    \/ UpdateReturns
    \/ ViewReturns
    \/ Teardown
    \/ Return

NextApps == AppsStep \/ Input

SpecApps == InitApps /\ [][NextApps]_vars

\* Every timer fires, every execution context is scheduled and the
\* dispatcher goes on: a step that can be taken is taken.
FairSpecApps == SpecApps /\ WF_vars(AppsStep)

(***************************************************************************)
(* Claims about the combinators, checked under SpecCmd.                    *)
(***************************************************************************)
NonNil(cmds) == SelectSeq(cmds, LAMBDA c : c # NilCmd)

\* C1: Batch returns nil if and only if its list has no non-nil entry;
\* otherwise calling the returned command yields a BatchMsg that holds exactly
\* the non-nil entries in their original order, so it is neither empty nor
\* holds a nil command.
C1_BatchKeepsExactlyNonNil ==
    last.op = "Batch" =>
        /\ (last.result = NilCmd) <=>
               (\A i \in 1..Len(last.args) : last.args[i] = NilCmd)
        /\ last.result # NilCmd =>
               /\ Call(last.result) = BatchMsg(NonNil(last.args))
               /\ Len(Call(last.result).cmds) > 0
               /\ \A i \in 1..Len(Call(last.result).cmds) :
                      Call(last.result).cmds[i] # NilCmd

\* Batch was called with a nil entry between two different commands.
C1_Witness ==
    /\ last.op = "Batch"
    /\ Len(last.args) = 3
    /\ last.args[1] # NilCmd
    /\ last.args[2] = NilCmd
    /\ last.args[3] # NilCmd
    /\ last.args[1] # last.args[3]

\* C2: Wrap(nil, id) is nil, and calling Wrap(cmd, id) for a command whose
\* message M is neither a BatchMsg nor a sequenceMsg yields
\* WrappedMsg{Id: id, Msg: M}.
C2_WrapPlain ==
    /\ (last.op = "Wrap" /\ last.cmd = NilCmd) => last.result = NilCmd
    /\ (last.op = "call" /\ last.cmd.k = "wrap"
            /\ ~IsComposite(Call(last.cmd.cmd))) =>
           last.msg = WrappedMsg(last.cmd.id, Call(last.cmd.cmd))

\* A wrapped command that yields an application message was called.
C2_Witness ==
    /\ last.op = "call"
    /\ last.cmd.k = "wrap"
    /\ last.cmd.id = 1
    /\ Call(last.cmd.cmd) = Plain(2)

\* C3 as stated: calling Wrap(cmd, id) for a command that yields a composite
\* carrying c1..cn yields a composite of the same kind carrying n commands,
\* the i-th being Wrap(ci, id).
C3_AsStated ==
    (last.op = "call" /\ last.cmd.k = "wrap"
        /\ IsComposite(Call(last.cmd.cmd))) =>
        /\ last.msg.t = Call(last.cmd.cmd).t
        /\ Len(last.msg.cmds) = Len(Call(last.cmd.cmd).cmds)
        /\ \A i \in 1..Len(Call(last.cmd.cmd).cmds) :
               last.msg.cmds[i] = Wrap(Call(last.cmd.cmd).cmds[i], last.cmd.id)

\* C3 amended: the composite Wrap re-emits has the same kind and carries, in
\* order, Wrap(c, id) for the non-nil commands c among c1..cn (all n of them
\* when none is nil); each is called like Wrap(c, id).
C3_WrapComposite ==
    (last.op = "call" /\ last.cmd.k = "wrap"
        /\ IsComposite(Call(last.cmd.cmd))) =>
        /\ last.msg.t = Call(last.cmd.cmd).t
        /\ Len(last.msg.cmds) = Len(NonNil(Call(last.cmd.cmd).cmds))
        /\ \A i \in 1..Len(last.msg.cmds) :
               /\ last.msg.cmds[i] =
                      Wrap(NonNil(Call(last.cmd.cmd).cmds)[i], last.cmd.id)
               /\ Call(last.msg.cmds[i]) =
                      WrapResult(Call(NonNil(Call(last.cmd.cmd).cmds)[i]),
                                 last.cmd.id)

\* A wrapped Sequence whose list holds a nil entry before a command was called.
C3_Witness ==
    /\ last.op = "call"
    /\ last.cmd.k = "wrap"
    /\ Call(last.cmd.cmd).t = "sequenceMsg"
    /\ Len(Call(last.cmd.cmd).cmds) = 2
    /\ Call(last.cmd.cmd).cmds[1] = NilCmd
    /\ Call(last.cmd.cmd).cmds[2] # NilCmd
    /\ Len(last.msg.cmds) = 1

\* A command tree: leaves under Batch and Sequence (a Sequence keeps the nil
\* entries it was given).
RECURSIVE IsTree(_)
IsTree(cmd) ==
    \/ cmd.k = "leaf"
    \/ /\ cmd.k \in {"batch", "sequence"}
       /\ \A i \in 1..Len(cmd.cmds) : cmd.cmds[i] = NilCmd \/ IsTree(cmd.cmds[i])

\* The messages the leaves of a tree return, in the order of the tree.
RECURSIVE LeafResults(_)
RECURSIVE LeafResultsAll(_)
LeafResults(cmd) ==
    IF cmd = NilCmd THEN <<>>
    ELSE IF cmd.k = "leaf" THEN <<cmd.msg>>
    ELSE LeafResultsAll(cmd.cmds)
LeafResultsAll(cmds) ==
    IF cmds = <<>> THEN <<>>
    ELSE LeafResults(Head(cmds)) \o LeafResultsAll(Tail(cmds))

RECURSIVE Depth(_)
Depth(cmd) ==
    IF cmd.k \in {"batch", "sequence"}
    THEN 1 + (IF cmd.cmds = <<>> THEN 0
              ELSE LET ds == {Depth(cmd.cmds[i]) : i \in 1..Len(cmd.cmds)}
                   IN CHOOSE d \in ds : \A e \in ds : e <= d)
    ELSE 0

\* C4: unrolling Wrap(tree, id) for a tree of leaves under Batch and Sequence
\* delivers, for each leaf in order, WrappedMsg{id, M} with M the message the
\* leaf returns (one layer of wrapping), and never a WrappedMsg around a
\* BatchMsg or a sequenceMsg.
C4_WrapReachesLeaves ==
    (last.op = "unroll" /\ last.cmd.k = "wrap" /\ IsTree(last.cmd.cmd)) =>
        /\ Len(last.out) = Len(LeafResults(last.cmd.cmd))
        /\ \A i \in 1..Len(last.out) :
               /\ last.out[i] =
                      WrappedMsg(last.cmd.id, LeafResults(last.cmd.cmd)[i])
               /\ ~IsComposite(last.out[i].Msg)

\* A wrapped tree two combinators deep with two leaves was unrolled.
C4_Witness ==
    /\ last.op = "unroll"
    /\ last.cmd.k = "wrap"
    /\ IsTree(last.cmd.cmd)
    /\ Depth(last.cmd.cmd) = 2
    /\ Len(last.out) = 2
    /\ last.out[1] # last.out[2]

(***************************************************************************)
(* Claims about the event loop, checked under SpecLoop.                    *)
(***************************************************************************)
MsgsOf(entries) == [i \in 1..Len(entries) |-> entries[i].msg]

IsPrefix(a, b) == Len(a) <= Len(b) /\ a = SubSeq(b, 1, Len(a))

Deliverable(msg) == msg # NilMsg /\ ~IsControl(msg)

\* The program runs the declared list as a sequence, wrapped or not.
RunsSequence ==
    program \in {Sequence(declared), Batch(<<Sequence(declared), Other>>),
                 Wrap(Sequence(declared), 1)}

\* What the non-nil commands of the declared list return, in declared order
\* (a command that faults returns nothing).
DeclaredResults ==
    [i \in 1..Len(NonNil(declared)) |->
        IF Panics(NonNil(declared)[i]) THEN NilMsg
        ELSE IF program = Wrap(Sequence(declared), 1)
        THEN WrappedMsg(1, Call(NonNil(declared)[i]))
        ELSE Call(NonNil(declared)[i])]

\* The messages of the declared commands Update was invoked with, in order.
DeclaredUpdates ==
    SelectSeq(MsgsOf(updates),
              LAMBDA m : \E i \in 1..Len(DeclaredResults) : m = DeclaredResults[i])

\* C5: the commands of a Sequence run one at a time in declared order: while
\* one of them is executing, every message the commands before it produced
\* has been through Update, and so the messages of the sequence reach Update
\* in declared order, whatever else runs concurrently.
C5_SequenceInOrder ==
    RunsSequence =>
        /\ IsPrefix(DeclaredUpdates, SelectSeq(DeclaredResults, Deliverable))
        /\ (Len(runners) >= 1 /\ runners[1].phase = "running") =>
               /\ DeclaredUpdates =
                      SelectSeq(SubSeq(DeclaredResults, 1, runners[1].ran),
                                Deliverable)
               /\ finished = Len(updates) \/ updates[Len(updates)].from # 1

\* The second command of a sequence was dispatched after the first, with the
\* message of a concurrent command between them.
C5_Witness ==
    /\ program = Batch(<<Sequence(declared), Other>>)
    /\ declared = <<A, NilCmd, B>>
    /\ MsgsOf(updates) = <<Plain(1), Plain(6), Plain(2)>>
    /\ finished = 3

RECURSIVE HoldsComposite(_)
HoldsComposite(msg) ==
    \/ IsComposite(msg)
    \/ msg.t = "WrappedMsg" /\ HoldsComposite(msg.Msg)

\* C6: Update is never invoked with a BatchMsg or a sequenceMsg, bare or
\* inside a WrappedMsg: the composites of Batch, Sequence and Wrap are
\* unrolled by the loop.
C6_NoCompositeInUpdate ==
    \A i \in 1..Len(updates) : ~HoldsComposite(updates[i].msg)

\* The sequence re-emitted by a Wrap was unrolled and both its wrapped
\* messages reached Update.
C6_Witness ==
    /\ program = Wrap(Sequence(declared), 1)
    /\ declared = <<A, NilCmd, B>>
    /\ MsgsOf(updates) = <<WrappedMsg(1, Plain(1)), WrappedMsg(1, Plain(2))>>

\* C7: at most one Update invocation is active, and the messages Update was
\* invoked with are exactly the messages taken from the channel that are not
\* control messages, each once, in the order they were enqueued.
C7_UpdateSerializes ==
    /\ Len(updates) - finished \in {0, 1}
    /\ Len(msgs) <= Len(enqueued)
    /\ updates = SelectSeq(SubSeq(enqueued, 1, Len(enqueued) - Len(msgs)),
                           LAMBDA e : ~IsControl(e.msg))

\* Update was invoked with messages of three producers while another
\* message waited on the channel.
C7_Witness ==
    /\ Len(updates) = 3
    /\ \E i \in 1..3 : updates[i].msg = Plain(7)
    /\ \E i \in 1..3 : updates[i].from = 1
    /\ \E i \in 1..3 : updates[i].msg = Plain(6)
    /\ dpc = "updating"
    /\ msgs # <<>>

\* C8: once the quit message has been handled Update is not invoked again,
\* kill is never called, and when the loop has stopped the renderer's stop
\* has been called exactly once.
C8_QuitStopsOnce ==
    /\ [](cause = "quit" => (killCalls = 0 /\ stopCalls <= 1))
    /\ []((cause = "quit" /\ state = "Stopped") => stopCalls = 1)
    /\ [][cause = "quit" => updates' = updates]_vars

\* The loop stopped after a quit that left a message on the channel and
\* discarded the result of a command that was still running.
C8_Witness ==
    /\ cause = "quit"
    /\ state = "Stopped"
    /\ stopCalls = 1
    /\ dropped >= 1
    /\ msgs # <<>>
    /\ Len(updates) >= 1

\* C9: whatever ends the loop, the renderer is torn down exactly once before
\* Run returns, and a fault that was raised is what Run returns.
C9_TeardownOnceBeforeReturn ==
    /\ stopCalls + killCalls <= 1
    /\ outcome # "none" => state = "Stopped"
    /\ state = "Stopped" => (stopCalls + killCalls = 1 /\ outcome # "none")
    /\ (state = "Stopped" /\ fault # "none") => outcome = "fault"
    /\ (state = "Stopped" /\ cause = "ioerr" /\ fault = "none") =>
           outcome = "ioerr"

\* Run returned the fault of a command after the teardown.
C9_Witness ==
    /\ state = "Stopped"
    /\ cause = "fault"
    /\ fault = "cmd"
    /\ outcome = "fault"
    /\ stopCalls + killCalls = 1

(***************************************************************************)
(* Claims about listenForResize, checked under FairSpecResize.             *)
(***************************************************************************)
\* C10: once the context is cancelled listenForResize eventually returns;
\* when it has returned the signal channel is unregistered and done has been
\* closed exactly once; done is never closed while the context is not
\* cancelled.
C10_ListenerStopsOnCancel ==
    /\ ctxDone ~> (lpc = "returned")
    /\ [](lpc = "returned" => (~notified /\ doneClosed = 1))
    /\ [](doneClosed <= 1)
    /\ [](doneClosed > 0 => ctxDone)

\* The listener returned after a cancellation that found it in checkResize
\* with a further signal waiting.
C10_Witness ==
    /\ lpc = "returned"
    /\ ctxDone
    /\ checks >= 2
    /\ sig = 1
    /\ doneClosed = 1

(***************************************************************************)
(* Claims about Tick and Every, checked under SpecTimer.                   *)
(***************************************************************************)
\* C11: when the cancellation signal is triggered while a Tick or Every
\* command is blocked on its timer, the command leaves its wait without
\* waiting for the rest of the duration, and fn is not applied afterwards:
\* such a command never sees its timer expire and never returns fn's message.
C11_CancelUnblocksTimer ==
    \A i \in 1..Len(timers) :
        timers[i].cut =>
            /\ timers[i].pc # "expired"
            /\ ~(timers[i].pc = "returned" /\ timers[i].msg # NilMsg)

\* C17: an Every of duration D called at time n waits d with 0 < d <= D,
\* where n + d is the first multiple of D after n (the whole D when n is a
\* multiple of D), and returns fn of the time its timer fired, n + d; two
\* Every of the same D called in the same period fire at the same time.
C17_EveryAligns ==
    \A i \in 1..Len(timers) :
        timers[i].kind = "Every" =>
            /\ 0 < timers[i].d
            /\ timers[i].d <= timers[i].duration
            /\ (timers[i].n + timers[i].d) % timers[i].duration = 0
            /\ \A t \in (timers[i].n + 1)..(timers[i].n + timers[i].d - 1) :
                   t % timers[i].duration # 0
            /\ timers[i].n % timers[i].duration = 0 =>
                   timers[i].d = timers[i].duration
            /\ timers[i].pc = "returned" =>
                   timers[i].msg = fn(timers[i].n + timers[i].d)
            /\ \A j \in 1..Len(timers) :
                   ( /\ timers[j].kind = "Every"
                     /\ timers[j].duration = timers[i].duration
                     /\ timers[j].n \div timers[j].duration
                            = timers[i].n \div timers[i].duration )
                   => timers[j].n + timers[j].d = timers[i].n + timers[i].d

\* Two Every of duration 3, called at times 1 and 2, both returned fn(3).
C17_Witness ==
    /\ Len(timers) = 2
    /\ \A i \in 1..2 :
           /\ timers[i].kind = "Every"
           /\ timers[i].duration = 3
           /\ timers[i].n = i
           /\ timers[i].pc = "returned"
           /\ timers[i].msg = fn(3)

C19_WrapNeverNil ==
    (last.op = "call" /\ last.cmd.k = "wrap") =>
        /\ last.msg # NilMsg
        /\ last.msg.t \in {"BatchMsg", "sequenceMsg", "WrappedMsg"}
        /\ last.msg.t = "WrappedMsg" => last.msg.Id = last.cmd.id
        /\ Call(last.cmd.cmd) = NilMsg =>
               last.msg = WrappedMsg(last.cmd.id, NilMsg)

\* Wrap of a command that returns nil, with id 2, was called.
C19_Witness ==
    /\ last.op = "call"
    /\ last.cmd = Wrap(Leaf(NilMsg), 2)
    /\ last.msg = WrappedMsg(2, NilMsg)

(***************************************************************************)
(* Claims about what the commands execute, checked under SpecExec.         *)
(***************************************************************************)
\* The entries of cmds, from the first on, that return a message.
Hits(cmds) ==
    {i \in 1..Len(cmds) : cmds[i] # NilCmd /\ Call(cmds[i]) # NilMsg}

First(S) == CHOOSE i \in S : \A j \in S : i <= j

\* C16: the command of Sequentially executes the non-nil commands of its
\* list in order and returns the message of the first that returns one; no
\* command after that one is executed; nil commands are skipped; it
\* returns nil when every command returns nil or the list is empty.
C16_SequentiallyFirstMessage ==
    (last.op = "run" /\ last.cmd.k = "sequentially") =>
        IF Hits(last.cmd.cmds) = {}
        THEN /\ last.msg = NilMsg
             /\ last.calls = NonNil(last.cmd.cmds)
        ELSE /\ last.msg = Call(last.cmd.cmds[First(Hits(last.cmd.cmds))])
             /\ last.calls = NonNil(SubSeq(last.cmd.cmds, 1,
                                           First(Hits(last.cmd.cmds))))

\* A Sequentially of two commands that return a message was called: the
\* message of the first was returned and the second was not executed.
C16_Witness ==
    /\ last.op = "run"
    /\ last.cmd = Sequentially(<<A, B>>)
    /\ last.msg = Plain(1)
    /\ last.calls = <<A>>

\* C20: a constructor (Batch, Sequence, Wrap, Tick, Every, Sequentially,
\* SetWindowTitle) executes none of the commands and callbacks it is given;
\* a call of the command of Batch or Sequence executes nothing, so none of
\* its constituents; a call of the command of Wrap calls the inner command
\* once and nothing else, so none of the commands its result carries, and
\* executes beyond that only what the inner command executes.
C20_ConstructionIsInert ==
    /\ last.op = "build" => last.calls = <<>>
    /\ (last.op = "run" /\ last.cmd.k \in {"batch", "sequence"}) =>
           (last.calls = <<>> /\ last.ran = <<>>)
    /\ (last.op = "run" /\ last.cmd.k = "wrap") =>
           /\ last.calls = <<last.cmd.cmd>>
           /\ last.ran = <<last.cmd.cmd>> \o Ran(last.cmd.cmd)
           /\ last.cmd.cmd.k \in {"batch", "sequence"} =>
                  last.ran = <<last.cmd.cmd>>

\* Wrap of a Batch was called: the Batch's command was executed, the
\* command it carries was not.
C20_Witness ==
    /\ last.op = "run"
    /\ last.cmd = Wrap(Batch(<<A>>), 1)
    /\ last.msg = BatchMsg(<<Wrap(A, 1)>>)
    /\ last.ran = <<Batch(<<A>>)>>

(***************************************************************************)
(* Further claims about the event loop, checked under SpecLoop.            *)
(***************************************************************************)
\* Everything the program started has run and been dispatched.
Settled ==
    /\ state = "Running"
    /\ tasks = EmptyBag
    /\ msgs = <<>>
    /\ dpc = "idle"
    /\ \A r \in 1..Len(runners) :
           runners[r].phase = "ready" /\ SkipNil(runners[r].cmds) = <<>>

\* The payloads of the declared commands Update was invoked with, in order.
DeclaredPayloads ==
    SelectSeq([i \in 1..Len(updates) |-> Inner(updates[i].msg)],
              LAMBDA m : m \in {Plain(1), Plain(2)})

\* C18: a nil command in the list of a Batch or a Sequence is dropped
\* without error and the other commands still run, in declared order for a
\* Sequence: once the program has settled each of them has delivered its
\* message.  A Batch or Sequence with no non-nil command does nothing: no
\* command of the list is executed, no message reaches Update, and the loop
\* leaves Running only for a cause from outside.
C18_NilCommandsDropped ==
    /\ (\E i \in 1..Len(declared) : declared[i] = NilCmd) => fault = "none"
    /\ (declared = <<A, NilCmd, B>> /\ Settled) =>
           /\ Len(DeclaredPayloads) = 2
           /\ {DeclaredPayloads[i] : i \in 1..2} = {Plain(1), Plain(2)}
           /\ RunsSequence => DeclaredPayloads = <<Plain(1), Plain(2)>>
    /\ NonNil(declared) = <<>> =>
           /\ fault = "none"
           /\ \A r \in 1..Len(runners) :
                  runners[r].ran = 0 /\ runners[r].phase = "ready"
           /\ \A i \in 1..Len(updates) : updates[i].from = 0
           /\ Len(updates) <= inputs
           /\ inputs = 0 => \A cmd \in BagToSet(tasks) : cmd = program
           /\ (state \in {"Quitting", "Stopped"} /\ inputs = 0) =>
                  cause \in {"cancel", "ioerr"}

\* A wrapped Sequence with a nil command between two others has settled:
\* the messages of both have been through Update, in declared order.
C18_Witness ==
    /\ declared = <<A, NilCmd, B>>
    /\ program = Wrap(Sequence(declared), 1)
    /\ Settled
    /\ MsgsOf(updates) = <<WrappedMsg(1, Plain(1)), WrappedMsg(1, Plain(2))>>

(***************************************************************************)
(* Claims about the example applications, checked under SpecApps and,      *)
(* for termination, under FairSpecApps.                                    *)
(***************************************************************************)
\* The Update invocations made with a tick message, and those that ended.
Ticks == Len(SelectSeq(updates, LAMBDA e : e.msg = tickMsg))

TicksDone ==
    IF dpc = "updating" /\ updates[Len(updates)].msg = tickMsg
    THEN Ticks - 1 ELSE Ticks

\* The ticks under way: a Tick executing, or its message not yet handled.
TicksOutstanding ==
    CopiesIn(tick, tasks)
    + Len(SelectSeq(msgs, LAMBDA e : e.msg = tickMsg))
    + (Ticks - TicksDone)

\* C13: the countdown from 5.  Each tick-driven Update lowers the model by
\* one (4, 3, 2, 1, 0) and there are never more than 5 of them; at most one
\* Tick is outstanding at a time; the alternate screen is entered once; a
\* run without key input that has stopped has had exactly 5 tick-driven
\* Updates, returned no error and restored the terminal (renderer stopped,
\* alternate screen left); and every run stops.
C13_Countdown ==
    /\ [](program = CountdownInit =>
            /\ model = CountdownFrom - TicksDone
            /\ Ticks <= CountdownFrom
            /\ TicksOutstanding <= 1
            /\ state # "Created" => altEnters = 1
            /\ (state = "Stopped" /\ inputs = 0) =>
                   /\ Ticks = CountdownFrom
                   /\ model = 0
                   /\ outcome = "nil"
                   /\ fault = "none"
                   /\ stopCalls = 1
                   /\ killCalls = 0
                   /\ ~altScreen)
    /\ (program = CountdownInit) ~> (state = "Stopped")

\* The countdown has run to its end without a key.
C13_Witness ==
    /\ program = CountdownInit
    /\ state = "Stopped"
    /\ inputs = 0
    /\ model = 0
    /\ Ticks = 5
    /\ finished = 5
    /\ outcome = "nil"

\* The WrappedMsg values Update was invoked with, in order.
WrappedUpdates ==
    SelectSeq(MsgsOf(updates), LAMBDA m : m.t = "WrappedMsg")

\* C14: two components wrapped with the ids 1 and 2 that both issue a
\* Tick: whichever timer fires first, Update receives no WrappedMsg but the
\* one with Id 1 and the first component's payload and the one with Id 2
\* and the second component's payload, each at most once, and both once the
\* program has settled.
C14_WrappedTicksKeepIds ==
    program = TwoComponents =>
        /\ \A i \in 1..Len(WrappedUpdates) :
               WrappedUpdates[i] \in
                   {WrappedMsg(1, Plain(1)), WrappedMsg(2, Plain(2))}
        /\ Len(WrappedUpdates) <= 2
        /\ Len(WrappedUpdates) = 2 => WrappedUpdates[1] # WrappedUpdates[2]
        /\ Settled => Len(WrappedUpdates) = 2

\* The second component's timer fired first; both messages were delivered.
C14_Witness ==
    /\ program = TwoComponents
    /\ Settled
    /\ MsgsOf(updates) = <<WrappedMsg(2, Plain(2)), WrappedMsg(1, Plain(1))>>
    /\ finished = 2

\* C15: the message of SetWindowTitle is never passed to Update, bare or
\* inside a WrappedMsg, however the command is issued: directly, as a
\* member of a Batch or of a Sequence, or through Wrap.
C15_TitleNeverInUpdate ==
    \A i \in 1..Len(updates) :
        Inner(updates[i].msg).t # "setWindowTitleMsg"

====
